---- MODULE Spec2Model ----
(***************************************************************************)
(* lupo: a file-backed ledger of stock trades with a derived portfolio.    *)
(*                                                                         *)
(* src/main.rs is the command-line entry: main() maps the outcome of run() *)
(* to the process exit code, run() dispatches one subcommand (init, check, *)
(* trades, port) to the Store facade.  The Store itself (lupo::Store: new, *)
(* open, check, trades, port) lives in the library crate, which is not     *)
(* among the sources; it is modelled from the design document (sections    *)
(* 3, 4 and 7).                                                            *)
(*                                                                         *)
(* The data directory is the only state that survives an invocation.  A    *)
(* step of the model is either one invocation of the program, from its     *)
(* start to its end, or the passing of the ended process: the variables    *)
(* that record what the invocation was given and what it did are cleared,  *)
(* and the next invocation starts from the directory alone.                *)
(***************************************************************************)
EXTENDS Integers, Sequences, FiniteSets, TLC

VARIABLES
    disk,     \* the data directory: absent, corrupt, or a (Registry, Ledger)
    before,   \* whether the invocation before this one was a successful init
    opts,     \* the parsed arguments of the invocation
    env,      \* what the invocation runs in: build, storage reads, streams
    calls,    \* the core operations the invocation called, with results
    store,    \* the Store the invocation ended up holding
    stdout,   \* the lines of the invocation that reached standard output
    errlog,   \* what the invocation got written to the diagnostic stream
    exit      \* how the invocation ended: exit code or signal

vars == <<disk, before, opts, env, calls, store, stdout, errlog, exit>>

---------------------------------------------------------------------------
(* Bounds and domains *)

\* The longest ledger the data directory holds.
MaxLedger == 2

\* The longest ledger of the directories the portfolio is computed over.
MaxPortLedger == 3

\* Stock symbols, in ascending order.
SymbolOrder == <<"AAPL", "MSFT">>

Symbols == { SymbolOrder[i] : i \in 1..Len(SymbolOrder) }

\* The position of a symbol in the ascending order of symbols.
Rank(s) == CHOOSE i \in 1..Len(SymbolOrder) : SymbolOrder[i] = s

\* The display name each symbol has when it is registered.
DisplayName == [s \in Symbols |-> IF s = "AAPL" THEN <<"a", "b">> ELSE <<"b", "c">>]

Sides == {"buy", "sell"}
Quantities == {0, 1}

\* The quantities of the trades the portfolio is computed over.
PortQuantities == {2, 4, 10}
Prices == {-1, 0}
Timestamps == {1, 2}

\* The value of an absent --name-substring.
None == <<"None">>

\* The --name-substring arguments tried: absent, or a string.
Filters == {None, <<"b">>, <<"b", "c">>, <<"c", "a">>}

HomeDir == "home_dir"

\* opts.directory: Some(path) or None.
NoDirectory == <<>>
Directories == {<<HomeDir>>, NoDirectory}

\* usize::MAX, written as its residue modulo 2^64: in wrapping arithmetic
\* UsizeMax + 1 = 0.
UsizeMax == -1

\* opts.verbose: no -v, or as many as a usize holds.
Verbosities == {0, UsizeMax}

\* Whether the binary was built with overflow checks (debug) or without
\* (release).
Builds == {"debug", "release"}

\* What reading the storage meets once Open has succeeded: nothing, or a
\* record that cannot be read or parsed.
Reads == {"ok", "FormatError"}

\* The most lines one invocation prints: two for check, one per trade or
\* position otherwise.
MaxLines == IF MaxLedger > Len(SymbolOrder) THEN MaxLedger ELSE Len(SymbolOrder)

\* What a write to standard output does once the sink has stopped taking
\* lines: it returns without the line reaching anyone (a closed descriptor,
\* or a pipe whose reader leaves without reading it), it raises SIGPIPE (a
\* pipe whose reader has gone), it raises SIGXFSZ (a file at the file size
\* limit), or it fails (a full device).
Thens == {"dropped", "sigpipe", "sigxfsz", "error"}

\* Standard output that takes every line: a terminal, a file, a pipe that is
\* read to the end.
OpenSink == [takes |-> MaxLines, then |-> "dropped"]

\* How standard output behaves: it takes the first lines written to it, and
\* treats every later write alike.
Sinks == {OpenSink} \cup [takes : 0..(MaxLines - 1), then : Thens]

\* What the diagnostic stream is.  A write to a closed descriptor returns
\* without anything being written; a write to a closed pipe raises SIGPIPE,
\* a write to a file at the file size limit raises SIGXFSZ.
ErrSinks == {"open", "closed descriptor", "closed pipe", "file at size limit"}

\* What an invocation runs in.
Envs == [build : Builds, read : Reads, sink : Sinks, errsink : ErrSinks]

\* A debug build, readable storage, streams that take everything.
NormalEnv == [build |-> "debug", read |-> "ok", sink |-> OpenSink, errsink |-> "open"]

\* The exit status of a process that panicked.
PanicStatus == 101

\* The status of a process terminated by SIGPIPE (signal 13): no exit code.
SigPipeStatus == -13

\* The status of a process terminated by SIGXFSZ (signal 25): no exit code.
SigXfszStatus == -25

---------------------------------------------------------------------------
(* Data model (design section 3) *)

TradeRecord == [sym : Symbols, side : Sides, qty : Quantities,
                price : Prices, ts : Timestamps]

\* A Registry maps each of its symbols to the stock's display name.
Registries == { [s \in D |-> DisplayName[s]] : D \in SUBSET Symbols }

EmptyRegistry == [s \in {} |-> <<>>]

RECURSIVE SeqsUpTo(_, _)
SeqsUpTo(S, n) ==
    IF n = 0 THEN {<<>>}
    ELSE LET shorter == SeqsUpTo(S, n - 1)
         IN  shorter \cup { Append(q, x) : q \in {r \in shorter : Len(r) = n - 1}, x \in S }

Ledgers == SeqsUpTo(TradeRecord, MaxLedger)

AbsentDir == [kind |-> "absent", reg |-> EmptyRegistry, led |-> <<>>]
CorruptDir == [kind |-> "corrupt", reg |-> EmptyRegistry, led |-> <<>>]
EmptyDir == [kind |-> "init", reg |-> EmptyRegistry, led |-> <<>>]

InitializedDirs == { [kind |-> "init", reg |-> r, led |-> l] : r \in Registries, l \in Ledgers }

\* The directories the command-line specification starts from: every stock
\* is registered and the ledger is a run of well-formed buys, the stocks
\* taking turns.
PlainTrade(i) ==
    [sym |-> SymbolOrder[((i - 1) % Len(SymbolOrder)) + 1], side |-> "buy",
     qty |-> 1, price |-> 0, ts |-> 1]

PlainDirs ==
    { [kind |-> "init", reg |-> DisplayName, led |-> [i \in 1..n |-> PlainTrade(i)]] :
          n \in 0..MaxLedger }

\* The directories the portfolio is computed over: every stock registered,
\* trades of either side in any on-disk order, with quantities that net to
\* zero, to a positive and to a negative holding.
PortTradeRecord == [sym : Symbols, side : Sides, qty : PortQuantities,
                    price : {0}, ts : Timestamps]

PortDirs ==
    { [kind |-> "init", reg |-> DisplayName, led |-> l] :
          l \in SeqsUpTo(PortTradeRecord, MaxPortLedger) }

NoStore == [st |-> "Uninitialized", reg |-> EmptyRegistry, led |-> <<>>]

---------------------------------------------------------------------------
(* Store facade: New and Open (design sections 3, 4.1, 4.2, 4.3 and 7) *)

\* New(path, force): an absent directory is created with an empty Registry
\* and an empty Ledger; a present one fails with AlreadyInitialized unless
\* force is set, and is cleared and reinitialized when it is.
StoreNew(d, force) ==
    IF d.kind # "absent" /\ ~force
    THEN [ok |-> FALSE, err |-> "AlreadyInitialized", disk |-> d, store |-> NoStore]
    ELSE [ok |-> TRUE, err |-> "none", disk |-> EmptyDir,
          store |-> [st |-> "Initialized", reg |-> EmptyRegistry, led |-> <<>>]]

\* Open(path): fails when the required files are missing (NotInitialized) or
\* unparsable (Corrupt); otherwise loads the Registry and the Ledger, the
\* Ledger in on-disk order.
StoreOpen(d) ==
    CASE d.kind = "absent"  -> [ok |-> FALSE, err |-> "NotInitialized", store |-> NoStore]
      [] d.kind = "corrupt" -> [ok |-> FALSE, err |-> "Corrupt", store |-> NoStore]
      [] OTHER -> [ok |-> TRUE, err |-> "none",
                   store |-> [st |-> "Open", reg |-> d.reg, led |-> d.led]]

\* Registry.Lookup(symbol): whether the symbol resolves.
Resolves(reg, sym) == sym \in DOMAIN reg

\* The display name of a trade's stock; empty when the symbol does not resolve.
Lookup(reg, sym) == IF Resolves(reg, sym) THEN reg[sym] ELSE <<>>

---------------------------------------------------------------------------
(* Timestamp order (design sections 4.4 and 4.6): ties keep on-disk order *)

\* t placed after every record of the sorted sequence whose timestamp is not
\* later than its own.
RECURSIVE InsertByTs(_, _)
InsertByTs(sorted, t) ==
    IF sorted = <<>> THEN <<t>>
    ELSE IF Head(sorted).ts <= t.ts
         THEN <<Head(sorted)>> \o InsertByTs(Tail(sorted), t)
         ELSE <<t>> \o sorted

RECURSIVE SortByTs(_)
SortByTs(led) ==
    IF led = <<>> THEN <<>>
    ELSE InsertByTs(SortByTs(SubSeq(led, 1, Len(led) - 1)), led[Len(led)])

---------------------------------------------------------------------------
(* Integrity Checker (design section 4.4) *)

\* Step 2: the record's symbol resolves, its quantity is > 0, its price >= 0.
WellFormedTrade(reg, t) == Resolves(reg, t.sym) /\ t.qty > 0 /\ t.price >= 0

NoHoldings == [s \in Symbols |-> 0]

\* Steps 2 and 3 over the records in timestamp order: the number of records
\* that are well formed and do not oversell.  A record that fails is counted
\* out and leaves the running held quantity of its stock as it was.
RECURSIVE Replay(_, _, _)
Replay(reg, sorted, held) ==
    IF sorted = <<>> THEN 0
    ELSE LET t == Head(sorted)
             rest == Tail(sorted)
         IN  IF ~WellFormedTrade(reg, t) THEN Replay(reg, rest, held)
             ELSE IF t.side = "buy"
                  THEN 1 + Replay(reg, rest, [held EXCEPT ![t.sym] = @ + t.qty])
                  ELSE IF held[t.sym] - t.qty < 0
                       THEN Replay(reg, rest, held)
                       ELSE 1 + Replay(reg, rest, [held EXCEPT ![t.sym] = @ - t.qty])

\* Check(): (validated trade count, validated stock count).  Storage that
\* cannot be read or parsed aborts the whole call: no counts are returned.
\* A loaded Registry has unique, non-empty symbols, so every stock validates.
StoreCheck(st, read) ==
    IF read # "ok"
    THEN [ok |-> FALSE, err |-> read, val |-> <<>>]
    ELSE [ok |-> TRUE, err |-> "none",
          val |-> <<Replay(st.reg, SortByTs(st.led), NoHoldings),
                    Cardinality(DOMAIN st.reg)>>]

---------------------------------------------------------------------------
(* Query Engine (design section 4.5) *)

\* Whether string s occurs in string name; the match is case-sensitive.
Contains(name, s) ==
    \E i \in 0..(Len(name) - Len(s)) : SubSeq(name, i + 1, i + Len(s)) = s

\* A TradeRecord joined with the Registry to expose the display name.
TradeView(reg, t) == [trade |-> t, name |-> Lookup(reg, t.sym)]

Matches(reg, t, f) ==
    f = None \/ (Resolves(reg, t.sym) /\ Contains(reg[t.sym], f))

RECURSIVE FilterTrades(_, _, _)
FilterTrades(reg, led, f) ==
    IF led = <<>> THEN <<>>
    ELSE (IF Matches(reg, Head(led), f) THEN <<TradeView(reg, Head(led))>> ELSE <<>>)
         \o FilterTrades(reg, Tail(led), f)

\* Trades(name_substring?).  A structural failure aborts the operation
\* (design section 7).
StoreTrades(st, f, read) ==
    IF read # "ok"
    THEN [ok |-> FALSE, err |-> read, val |-> <<>>]
    ELSE [ok |-> TRUE, err |-> "none", val |-> FilterTrades(st.reg, st.led, f)]

---------------------------------------------------------------------------
(* Portfolio Aggregator (design section 4.6) *)

\* The fold: buys increase the net quantity of their symbol, sells decrease it.
RECURSIVE FoldTrades(_, _)
FoldTrades(sorted, net) ==
    IF sorted = <<>> THEN net
    ELSE LET t == Head(sorted)
         IN  FoldTrades(Tail(sorted),
                 [net EXCEPT ![t.sym] = IF t.side = "buy" THEN @ + t.qty ELSE @ - t.qty])

\* p placed before the first position whose symbol is greater.
RECURSIVE InsertBySymbol(_, _)
InsertBySymbol(sorted, p) ==
    IF sorted = <<>> THEN <<p>>
    ELSE IF Rank(Head(sorted).sym) <= Rank(p.sym)
         THEN <<Head(sorted)>> \o InsertBySymbol(Tail(sorted), p)
         ELSE <<p>> \o sorted

\* The symbols of the ledger in order of first appearance, each once.
RECURSIVE GroupSymbols(_, _)
GroupSymbols(led, seen) ==
    IF led = <<>> THEN <<>>
    ELSE IF Head(led).sym \in seen THEN GroupSymbols(Tail(led), seen)
         ELSE <<Head(led).sym>> \o GroupSymbols(Tail(led), seen \cup {Head(led).sym})

\* One Position per grouped symbol with a non-zero net quantity, sorted by symbol.
RECURSIVE Positions(_, _)
Positions(syms, net) ==
    IF syms = <<>> THEN <<>>
    ELSE LET rest == Positions(Tail(syms), net)
             s == Head(syms)
         IN  IF net[s] = 0 THEN rest
             ELSE InsertBySymbol(rest, [sym |-> s, qty |-> net[s]])

\* Port().  A structural failure aborts the operation (design section 7).
StorePort(st, read) ==
    IF read # "ok"
    THEN [ok |-> FALSE, err |-> read, val |-> <<>>]
    ELSE [ok |-> TRUE, err |-> "none",
          val |-> Positions(GroupSymbols(st.led, {}),
                            FoldTrades(SortByTs(st.led), NoHoldings))]

---------------------------------------------------------------------------
(* The command line: main() and run() of src/main.rs *)

\* The fields of opts that run() reads.  opts.ts only selects the timestamp
\* format of the diagnostics, which errlog does not record.
Opts(subcmd, force, name_substring, quiet, verbose, directory) ==
    [subcmd |-> subcmd, force |-> force, name_substring |-> name_substring,
     quiet |-> quiet, verbose |-> verbose, directory |-> directory]

\* No process: nothing parsed.
NoOpts == Opts("none", FALSE, None, FALSE, 0, <<HomeDir>>)

\* A core operation called by run(), with what it returned.
Call(op, r, val) == [op |-> op, ok |-> r.ok, err |-> r.err, val |-> val]

\* The output lines of the subcommands.
DirLine(path) == [kind |-> "Data directory", val |-> path]
TradesLine(ct) == [kind |-> "trades processed correctly", val |-> ct]
StocksLine(cs) == [kind |-> "stocks processed correctly", val |-> cs]
ItemLines(items) == [i \in 1..Len(items) |-> [kind |-> "item", val |-> items[i]]]

\* How run() ends: it returns Ok(()), returns Err(e), panics, or the process
\* is terminated by a signal.
Returned == [kind |-> "ok", err |-> "none"]
Failed(e) == [kind |-> "err", err |-> e]
Panicked == [kind |-> "panic", err |-> "none"]
Killed(sig) == [kind |-> sig, err |-> "none"]

\* opts.verbose + 1, in the wrapping arithmetic of a release build.
Verbosity(v) == v + 1

\* opts.verbose + 1 overflows; a build with overflow checks panics there.
Overflows(v) == v = UsizeMax

\* run() panics before the match: on opts.verbose + 1 in a build with
\* overflow checks, or on opts.directory.unwrap() with no directory.
PanicsEarly(o, e) ==
    \/ e.build = "debug" /\ Overflows(o.verbose)
    \/ o.directory = NoDirectory

\* One println!: a write of one line to standard output.  Standard output is
\* line buffered, so every println! is a write of its own, and each has its
\* own outcome: the i-th line of the invocation is taken while i is within
\* what the sink takes; after that the write is dropped, kills the process
\* (main() has restored the default action of SIGPIPE, and SIGXFSZ has its
\* default action) or fails, which makes println! panic.
Write(i, snk) == IF i <= snk.takes THEN "taken" ELSE snk.then

\* The println! calls of one arm of run(), from the i-th line on: the lines
\* that reach the sink, and how the arm ends.
RECURSIVE PrintFrom(_, _, _)
PrintFrom(lines, i, snk) ==
    IF i > Len(lines) THEN [printed |-> <<>>, outcome |-> Returned]
    ELSE LET w == Write(i, snk)
             rest == PrintFrom(lines, i + 1, snk)
         IN  CASE w = "taken" -> [printed |-> <<lines[i]>> \o rest.printed,
                                  outcome |-> rest.outcome]
               [] w = "dropped" -> rest
               [] w = "error" -> [printed |-> <<>>, outcome |-> Panicked]
               [] OTHER -> [printed |-> <<>>, outcome |-> Killed(w)]

Println(lines, snk) == PrintFrom(lines, 1, snk)

\* Whether the way run() ended makes the process write to the diagnostic
\* stream: error! in main() unless opts.quiet is set (every verbosity run()
\* can set lets errors through), or the panic message.
WritesDiagnostic(o, r) ==
    \/ r.kind = "panic"
    \/ r.kind = "err" /\ ~o.quiet /\ Verbosity(o.verbose) >= 0

\* The signal a write to the diagnostic stream raises.
RaisedBy(esnk) ==
    CASE esnk = "closed pipe" -> "sigpipe"
      [] esnk = "file at size limit" -> "sigxfsz"
      [] OTHER -> "none"

\* The status of a process a signal terminated.
SignalStatus(sig) == IF sig = "sigpipe" THEN SigPipeStatus ELSE SigXfszStatus

\* Mutant of Main: the error is logged but the process still exits with 0.
Main_ExitZero(o, e, cs, st, out, r) ==
    /\ opts' = o
    /\ env' = e
    /\ calls' = cs
    /\ store' = st
    /\ stdout' = out
    /\ before' = before
    /\ errlog' = IF WritesDiagnostic(o, r) /\ e.errsink = "open"
                 THEN IF r.kind = "err" THEN r.err ELSE "panicked"
                 ELSE "none"
    /\ exit' = IF WritesDiagnostic(o, r) /\ RaisedBy(e.errsink) # "none"
               THEN SignalStatus(RaisedBy(e.errsink))
               ELSE CASE r.kind = "ok" -> 0
                      [] r.kind = "err" -> 0
                      [] r.kind = "panic" -> PanicStatus
                      [] OTHER -> SignalStatus(r.kind)

\* main(): when run() returns Err(e) the error is logged with error!, which
\* the logger set up in run() drops when opts.quiet is set, and the process
\* exits with 1; when run() returns Ok the process exits with 0.  A panic in
\* run() is reported by the runtime on the diagnostic stream and ends the
\* process with PanicStatus.  A write to the diagnostic stream that raises a
\* signal terminates the process there, before exit(1) or the panic's exit.
Main(o, e, cs, st, out, r) ==
    /\ opts' = o
    /\ env' = e
    /\ calls' = cs
    /\ store' = st
    /\ stdout' = out
    /\ before' = before
    /\ errlog' = IF WritesDiagnostic(o, r) /\ e.errsink = "open"
                 THEN IF r.kind = "err" THEN r.err ELSE "panicked"
                 ELSE "none"
    /\ exit' = IF WritesDiagnostic(o, r) /\ RaisedBy(e.errsink) # "none"
               THEN SignalStatus(RaisedBy(e.errsink))
               ELSE CASE r.kind = "ok" -> 0
                      [] r.kind = "err" -> 1
                      [] r.kind = "panic" -> PanicStatus
                      [] OTHER -> SignalStatus(r.kind)

\* No process is running: the last one has ended and passed.
Idle ==
    /\ opts = NoOpts
    /\ env = NormalEnv
    /\ calls = <<>>
    /\ store = NoStore
    /\ stdout = <<>>
    /\ errlog = "none"
    /\ exit = 0

\* run() up to the match, when it panics there: no core operation is called.
EarlyPanic(o, e) ==
    /\ disk' = disk
    /\ Main(o, e, <<>>, NoStore, <<>>, Panicked)

\* Mutant of RunInit: the force flag of the command line is not passed on;
\* New is always called with force set.
RunInit_AlwaysForce(o, e) ==
    /\ Idle
    /\ o.subcmd = "init"
    /\ IF PanicsEarly(o, e) THEN EarlyPanic(o, e)
       ELSE LET n == StoreNew(disk, TRUE)
                cs == <<Call("new", n, <<>>)>>
                pr == Println(<<DirLine(o.directory[1])>>, e.sink)
            IN  /\ disk' = n.disk
                /\ IF ~n.ok
                   THEN Main(o, e, cs, NoStore, <<>>, Failed(n.err))
                   ELSE Main(o, e, cs, n.store, pr.printed, pr.outcome)

\* Mutant of RunInit: the failure of New is dropped instead of returned.
RunInit_DropError(o, e) ==
    /\ Idle
    /\ o.subcmd = "init"
    /\ IF PanicsEarly(o, e) THEN EarlyPanic(o, e)
       ELSE LET n == StoreNew(disk, o.force)
                cs == <<Call("new", n, <<>>)>>
                pr == Println(<<DirLine(o.directory[1])>>, e.sink)
            IN  /\ disk' = n.disk
                /\ Main(o, e, cs, n.store, pr.printed, pr.outcome)

\* run(), SubCommand::Init { force }
RunInit(o, e) ==
    /\ Idle
    /\ o.subcmd = "init"
    /\ IF PanicsEarly(o, e) THEN EarlyPanic(o, e)
       ELSE LET n == StoreNew(disk, o.force)
                cs == <<Call("new", n, <<>>)>>
                pr == Println(<<DirLine(o.directory[1])>>, e.sink)
            IN  /\ disk' = n.disk
                /\ IF ~n.ok
                   THEN Main(o, e, cs, NoStore, <<>>, Failed(n.err))
                   ELSE Main(o, e, cs, n.store, pr.printed, pr.outcome)

\* Mutant of RunCheck: the stocks line prints the trade count.
RunCheck_TradesTwice(o, e) ==
    /\ Idle
    /\ o.subcmd = "check"
    /\ IF PanicsEarly(o, e) THEN EarlyPanic(o, e)
       ELSE LET op == StoreOpen(disk)
                c == StoreCheck(op.store, e.read)
                opened == <<Call("open", op, <<>>)>>
                cs == opened \o <<Call("check", c, c.val)>>
                pr == Println(<<TradesLine(c.val[1]), StocksLine(c.val[1])>>, e.sink)
            IN  /\ disk' = disk
                /\ IF ~op.ok
                   THEN Main(o, e, opened, NoStore, <<>>, Failed(op.err))
                   ELSE IF ~c.ok
                        THEN Main(o, e, cs, op.store, <<>>, Failed(c.err))
                        ELSE Main(o, e, cs, op.store, pr.printed, pr.outcome)

\* Mutant of RunCheck: a failure of check() is replaced by the counts (0, 0)
\* instead of being returned.
RunCheck_IgnoreCheckError(o, e) ==
    /\ Idle
    /\ o.subcmd = "check"
    /\ IF PanicsEarly(o, e) THEN EarlyPanic(o, e)
       ELSE LET op == StoreOpen(disk)
                c == StoreCheck(op.store, e.read)
                opened == <<Call("open", op, <<>>)>>
                cs == opened \o <<Call("check", c, c.val)>>
                counts == IF c.ok THEN c.val ELSE <<0, 0>>
                pr == Println(<<TradesLine(counts[1]), StocksLine(counts[2])>>, e.sink)
            IN  /\ disk' = disk
                /\ IF ~op.ok
                   THEN Main(o, e, opened, NoStore, <<>>, Failed(op.err))
                   ELSE Main(o, e, cs, op.store, pr.printed, pr.outcome)

\* run(), SubCommand::Check {}
RunCheck(o, e) ==
    /\ Idle
    /\ o.subcmd = "check"
    /\ IF PanicsEarly(o, e) THEN EarlyPanic(o, e)
       ELSE LET op == StoreOpen(disk)
                c == StoreCheck(op.store, e.read)
                opened == <<Call("open", op, <<>>)>>
                cs == opened \o <<Call("check", c, c.val)>>
                pr == Println(<<TradesLine(c.val[1]), StocksLine(c.val[2])>>, e.sink)
            IN  /\ disk' = disk
                /\ IF ~op.ok
                   THEN Main(o, e, opened, NoStore, <<>>, Failed(op.err))
                   ELSE IF ~c.ok
                        THEN Main(o, e, cs, op.store, <<>>, Failed(c.err))
                        ELSE Main(o, e, cs, op.store, pr.printed, pr.outcome)

\* Mutant of RunTrades: the filter is not passed on to trades().
RunTrades_NoFilter(o, e) ==
    /\ Idle
    /\ o.subcmd = "trades"
    /\ IF PanicsEarly(o, e) THEN EarlyPanic(o, e)
       ELSE LET op == StoreOpen(disk)
                t == StoreTrades(op.store, None, e.read)
                opened == <<Call("open", op, <<>>)>>
                cs == opened \o <<Call("trades", t, t.val)>>
                pr == Println(ItemLines(t.val), e.sink)
            IN  /\ disk' = disk
                /\ IF ~op.ok
                   THEN Main(o, e, opened, NoStore, <<>>, Failed(op.err))
                   ELSE IF ~t.ok
                        THEN Main(o, e, cs, op.store, <<>>, Failed(t.err))
                        ELSE Main(o, e, cs, op.store, pr.printed, pr.outcome)

\* Mutant of RunTrades: a directory that cannot be opened is initialized.
RunTrades_AutoInit(o, e) ==
    /\ Idle
    /\ o.subcmd = "trades"
    /\ IF PanicsEarly(o, e) THEN EarlyPanic(o, e)
       ELSE LET op == StoreOpen(disk)
                n == StoreNew(disk, TRUE)
                st == IF op.ok THEN op.store ELSE n.store
                t == StoreTrades(st, o.name_substring, e.read)
                opened == <<Call("open", op, <<>>)>>
                cs == IF op.ok THEN opened \o <<Call("trades", t, t.val)>>
                      ELSE opened \o <<Call("new", n, <<>>), Call("trades", t, t.val)>>
                pr == Println(ItemLines(t.val), e.sink)
            IN  /\ disk' = IF op.ok THEN disk ELSE n.disk
                /\ IF ~t.ok
                   THEN Main(o, e, cs, st, <<>>, Failed(t.err))
                   ELSE Main(o, e, cs, st, pr.printed, pr.outcome)

\* run(), SubCommand::Trades { name_substring }
RunTrades(o, e) ==
    /\ Idle
    /\ o.subcmd = "trades"
    /\ IF PanicsEarly(o, e) THEN EarlyPanic(o, e)
       ELSE LET op == StoreOpen(disk)
                t == StoreTrades(op.store, o.name_substring, e.read)
                opened == <<Call("open", op, <<>>)>>
                cs == opened \o <<Call("trades", t, t.val)>>
                pr == Println(ItemLines(t.val), e.sink)
            IN  /\ disk' = disk
                /\ IF ~op.ok
                   THEN Main(o, e, opened, NoStore, <<>>, Failed(op.err))
                   ELSE IF ~t.ok
                        THEN Main(o, e, cs, op.store, <<>>, Failed(t.err))
                        ELSE Main(o, e, cs, op.store, pr.printed, pr.outcome)

\* Mutant of RunPort: the lines are printed last to first.
RunPort_Reversed(o, e) ==
    /\ Idle
    /\ o.subcmd = "port"
    /\ IF PanicsEarly(o, e) THEN EarlyPanic(o, e)
       ELSE LET op == StoreOpen(disk)
                p == StorePort(op.store, e.read)
                n == Len(p.val)
                opened == <<Call("open", op, <<>>)>>
                cs == opened \o <<Call("port", p, p.val)>>
                pr == Println(ItemLines([i \in 1..n |-> p.val[n + 1 - i]]), e.sink)
            IN  /\ disk' = disk
                /\ IF ~op.ok
                   THEN Main(o, e, opened, NoStore, <<>>, Failed(op.err))
                   ELSE IF ~p.ok
                        THEN Main(o, e, cs, op.store, <<>>, Failed(p.err))
                        ELSE Main(o, e, cs, op.store, pr.printed, pr.outcome)

\* run(), SubCommand::Port {}
RunPort(o, e) ==
    /\ Idle
    /\ o.subcmd = "port"
    /\ IF PanicsEarly(o, e) THEN EarlyPanic(o, e)
       ELSE LET op == StoreOpen(disk)
                p == StorePort(op.store, e.read)
                opened == <<Call("open", op, <<>>)>>
                cs == opened \o <<Call("port", p, p.val)>>
                pr == Println(ItemLines(p.val), e.sink)
            IN  /\ disk' = disk
                /\ IF ~op.ok
                   THEN Main(o, e, opened, NoStore, <<>>, Failed(op.err))
                   ELSE IF ~p.ok
                        THEN Main(o, e, cs, op.store, <<>>, Failed(p.err))
                        ELSE Main(o, e, cs, op.store, pr.printed, pr.outcome)

\* The init of the ended invocation succeeded: New returned success, or the
\* process exited with 0.
InitSucceeded ==
    opts.subcmd = "init" /\ (exit = 0 \/ (calls # <<>> /\ calls[1].ok))

\* The process has ended.  Nothing of it remains but the data directory and,
\* with the caller, whether it was an init that succeeded.
Passed ==
    /\ opts # NoOpts
    /\ before' = IF InitSucceeded THEN "init succeeded" ELSE "other"
    /\ disk' = disk
    /\ opts' = NoOpts
    /\ env' = NormalEnv
    /\ calls' = <<>>
    /\ store' = NoStore
    /\ stdout' = <<>>
    /\ errlog' = "none"
    /\ exit' = 0

---------------------------------------------------------------------------
(* Specifications *)

\* The command lines parse_args() can return.
AllOpts ==
    { Opts(c, f, s, q, v, d) :
          c \in {"init", "check", "trades", "port"}, f \in BOOLEAN, s \in Filters,
          q \in BOOLEAN, v \in Verbosities, d \in Directories }

\* Of these, one per invocation that behaves differently: force is read by
\* init only, name_substring by trades only.
CommandLines ==
    { o \in AllOpts : /\ o.force => o.subcmd = "init"
                      /\ o.name_substring # None => o.subcmd = "trades" }

\* The command lines with a directory, no -v and no --quiet.
PlainCommandLines ==
    { o \in CommandLines : ~o.quiet /\ o.verbose = 0 /\ o.directory = <<HomeDir>> }

\* Environments with streams that take everything.
PlainEnvs == { e \in Envs : e.build = "debug" /\ e.sink = OpenSink /\ e.errsink = "open" }

\* Of the command lines S, those of subcommand c.
Of(S, c) == { o \in S : o.subcmd = c }

\* The command line under every argument and every environment, over
\* directories whose trades are plain.
Init ==
    /\ disk \in {AbsentDir, CorruptDir} \cup PlainDirs
    /\ before = "other"
    /\ Idle

Next ==
    \/ \E o \in Of(CommandLines, "init"), e \in Envs : RunInit(o, e)
    \/ \E o \in Of(CommandLines, "check"), e \in Envs : RunCheck(o, e)
    \/ \E o \in Of(CommandLines, "trades"), e \in Envs : RunTrades(o, e)
    \/ \E o \in Of(CommandLines, "port"), e \in Envs : RunPort(o, e)
    \/ Passed

Spec == Init /\ [][Next]_vars

\* The store's answers over every data directory up to the bound, in any
\* state a user or an earlier run can have left it in, seen through
\* invocations that are given the directory and streams that take
\* everything, with storage that reads well or not.
InitData ==
    /\ disk \in {AbsentDir, CorruptDir} \cup InitializedDirs
    /\ before = "other"
    /\ Idle

NextData ==
    \/ \E o \in Of(PlainCommandLines, "init"), e \in PlainEnvs : RunInit(o, e)
    \/ \E o \in Of(PlainCommandLines, "check"), e \in PlainEnvs : RunCheck(o, e)
    \/ \E o \in Of(PlainCommandLines, "trades"), e \in PlainEnvs : RunTrades(o, e)
    \/ \E o \in Of(PlainCommandLines, "port"), e \in PlainEnvs : RunPort(o, e)
    \/ Passed

SpecData == InitData /\ [][NextData]_vars

\* The portfolio over ledgers long enough for a stock to be bought, partly
\* or wholly sold, and another to be held beside it.
InitPort ==
    /\ disk \in {AbsentDir} \cup PortDirs
    /\ before = "other"
    /\ Idle

NextPort ==
    \/ \E o \in Of(PlainCommandLines, "init"), e \in PlainEnvs : RunInit(o, e)
    \/ \E o \in Of(PlainCommandLines, "port"), e \in PlainEnvs : RunPort(o, e)
    \/ Passed

SpecPort == InitPort /\ [][NextPort]_vars

---------------------------------------------------------------------------
(* Reference definitions used by the properties.  They restate what the    *)
(* operations should compute without the operations' own recursion.        *)

ReadOnlyCmds == {"check", "trades", "port"}

Range(q) == { q[i] : i \in 1..Len(q) }

Values(lines) == [i \in 1..Len(lines) |-> lines[i].val]

Indices(led) == 1..Len(led)

\* The sum of the quantities of the records at the indices J.
RECURSIVE SumQty(_, _)
SumQty(led, J) ==
    IF J = {} THEN 0
    ELSE LET j == CHOOSE x \in J : TRUE
         IN  led[j].qty + SumQty(led, J \ {j})

\* Buy quantities minus sell quantities of symbol s over the indices J.
NetOver(led, s, J) ==
    SumQty(led, {j \in J : led[j].sym = s /\ led[j].side = "buy"})
    - SumQty(led, {j \in J : led[j].sym = s /\ led[j].side = "sell"})

NetRef(led, s) == NetOver(led, s, Indices(led))

\* Record j is replayed no later than record i: earlier timestamp, or the
\* same timestamp and not later on disk.
NotAfter(led, j, i) ==
    led[j].ts < led[i].ts \/ (led[j].ts = led[i].ts /\ j <= i)

\* The held quantity of record i's stock once the well-formed records up to
\* and including i have been replayed.
HeldAfter(reg, led, i) ==
    NetOver(led, led[i].sym,
            {j \in Indices(led) : WellFormedTrade(reg, led[j]) /\ NotAfter(led, j, i)})

Oversells(reg, led, i) ==
    WellFormedTrade(reg, led[i]) /\ led[i].side = "sell" /\ HeldAfter(reg, led, i) < 0

HasSemanticFault(reg, led) ==
    \E i \in Indices(led) :
        \/ ~Resolves(reg, led[i].sym)
        \/ led[i].qty <= 0
        \/ led[i].price < 0
        \/ Oversells(reg, led, i)

\* The ledger without its record i.
Without(led, i) == SubSeq(led, 1, i - 1) \o SubSeq(led, i + 1, Len(led))

\* s occurs in name at some offset, character by character.
OccursIn(s, name) ==
    \E off \in 0..Len(name) :
        /\ off + Len(s) <= Len(name)
        /\ \A k \in 1..Len(s) : name[off + k] = s[k]

\* The k-th smallest element of the set of indices M.
Nth(M, k) == CHOOSE i \in M : Cardinality({j \in M : j <= i}) = k

\* The result lines of a subcommand whose core operations cs all succeeded.
ResultLines(o, cs) ==
    CASE o.subcmd = "init" -> <<DirLine(o.directory[1])>>
      [] o.subcmd = "check" -> <<TradesLine(cs[2].val[1]), StocksLine(cs[2].val[2])>>
      [] OTHER -> ItemLines(cs[2].val)

\* The core operations called, by name.
Ops(cs) == [i \in 1..Len(cs) |-> cs[i].op]

\* The invocation called the query op on an opened store and got an answer.
Answered(op) ==
    /\ opts.subcmd = op
    /\ Len(calls) = 2 /\ calls[1].op = "open" /\ calls[1].ok
    /\ calls[2].op = op /\ calls[2].ok

---------------------------------------------------------------------------
(* Properties *)

\* C1: New without force on an initialized directory fails with
\* AlreadyInitialized and leaves the stored Registry and Ledger unchanged;
\* New with force on it succeeds and resets the stored state to an empty
\* Registry and an empty Ledger, whatever invocations came before.
C1_NewOnInitialized ==
    [][ (opts'.subcmd = "init" /\ calls' # <<>> /\ disk.kind = "init") =>
            /\ Ops(calls') = <<"new">>
            /\ IF opts'.force
               THEN /\ calls'[1].ok
                    /\ disk' = EmptyDir
                    /\ store' = [st |-> "Initialized", reg |-> EmptyRegistry, led |-> <<>>]
               ELSE /\ ~calls'[1].ok /\ calls'[1].err = "AlreadyInitialized"
                    /\ disk' = disk
                    /\ store' = NoStore
       ]_vars

C1_Witness ==
    /\ opts.subcmd = "init" /\ ~opts.force
    /\ Len(calls) = 1 /\ calls[1].err = "AlreadyInitialized"
    /\ disk.kind = "init" /\ Len(disk.led) = MaxLedger /\ DOMAIN disk.reg = Symbols

\* C2: in the invocation that follows a successful init, Open succeeds and
\* yields zero trades and zero stocks: the store holds an empty Registry and
\* an empty Ledger, Check returns (0, 0), Trades returns nothing and Port
\* returns nothing, and that is what gets printed.
C2_OpenAfterNew ==
    (before = "init succeeded" /\ opts.subcmd \in ReadOnlyCmds /\ calls # <<>>) =>
        /\ Ops(calls) = <<"open", opts.subcmd>>
        /\ calls[1].ok
        /\ store = [st |-> "Open", reg |-> EmptyRegistry, led |-> <<>>]
        /\ calls[2].ok =>
               /\ calls[2].val = IF opts.subcmd = "check" THEN <<0, 0>> ELSE <<>>
               /\ env.sink = OpenSink =>
                      /\ exit = 0
                      /\ stdout = IF opts.subcmd = "check"
                                  THEN <<TradesLine(0), StocksLine(0)>> ELSE <<>>

\* A check that follows a successful init and reports (0, 0).
C2_Witness ==
    /\ before = "init succeeded"
    /\ Answered("check") /\ calls[2].val = <<0, 0>>
    /\ store = [st |-> "Open", reg |-> EmptyRegistry, led |-> <<>>]
    /\ stdout = <<TradesLine(0), StocksLine(0)>> /\ exit = 0

\* C4: when a ledger free of semantic faults gains one trade whose symbol
\* does not resolve, Check on readable storage succeeds and returns a trade
\* count one lower than the new ledger length, which is the count of the
\* ledger before the addition, and the stock count stays len(Registry).
C4_UnknownSymbolTrade ==
    (opts.subcmd = "check" /\ calls # <<>> /\ disk.kind = "init" /\ env.read = "ok") =>
        \A i \in Indices(disk.led) :
            (/\ ~Resolves(disk.reg, disk.led[i].sym)
             /\ ~HasSemanticFault(disk.reg, Without(disk.led, i))) =>
                /\ Answered("check")
                /\ calls[2].val = <<Len(disk.led) - 1, Cardinality(DOMAIN disk.reg)>>
                /\ calls[2].val[1] =
                       StoreCheck([st |-> "Open", reg |-> disk.reg,
                                   led |-> Without(disk.led, i)], "ok").val[1]
                /\ env.sink = OpenSink =>
                       /\ exit = 0
                       /\ stdout = <<TradesLine(Len(disk.led) - 1),
                                     StocksLine(Cardinality(DOMAIN disk.reg))>>

C4_Witness ==
    /\ Answered("check") /\ exit = 0
    /\ Len(disk.led) = MaxLedger
    /\ ~Resolves(disk.reg, disk.led[Len(disk.led)].sym)
    /\ Without(disk.led, Len(disk.led)) # <<>>
    /\ ~HasSemanticFault(disk.reg, Without(disk.led, Len(disk.led)))
    /\ stdout[1].val = Len(disk.led) - 1

\* C5: for every ledger, in any on-disk order, Port returns exactly one
\* position per symbol whose buy quantities minus sell quantities are not
\* zero, with that net quantity, omits the symbols whose net quantity is
\* zero, and lists the positions by symbol ascending; port prints them in
\* that order.
C5_PortNetPositions ==
    Answered("port") =>
        LET out == calls[2].val
        IN  /\ \A i, j \in 1..Len(out) : i < j => Rank(out[i].sym) < Rank(out[j].sym)
            /\ { out[i].sym : i \in 1..Len(out) }
                   = { s \in Symbols : NetRef(disk.led, s) # 0 }
            /\ \A i \in 1..Len(out) : out[i].qty = NetRef(disk.led, out[i].sym)
            /\ env.sink = OpenSink => (exit = 0 /\ Values(stdout) = out)

\* The claim's example, stored out of order: MSFT before AAPL, and the sale
\* of AAPL before, though timestamped after, its purchase.
C5_Witness ==
    /\ Answered("port") /\ exit = 0
    /\ disk.led = << [sym |-> "MSFT", side |-> "buy", qty |-> 2, price |-> 0, ts |-> 2],
                     [sym |-> "AAPL", side |-> "sell", qty |-> 4, price |-> 0, ts |-> 2],
                     [sym |-> "AAPL", side |-> "buy", qty |-> 10, price |-> 0, ts |-> 1] >>
    /\ Values(stdout) = << [sym |-> "AAPL", qty |-> 6], [sym |-> "MSFT", qty |-> 2] >>

\* C6: Trades without a filter returns every record of the ledger in on-disk
\* order; Trades with filter S returns exactly the records whose resolved
\* display name contains S, in their on-disk order; trades prints them in
\* that order.
C6_TradesFilter ==
    Answered("trades") =>
        LET out == calls[2].val
            f == opts.name_substring
            M == IF f = None THEN Indices(disk.led)
                 ELSE { i \in Indices(disk.led) :
                            /\ Resolves(disk.reg, disk.led[i].sym)
                            /\ OccursIn(f, disk.reg[disk.led[i].sym]) }
        IN  /\ Len(out) = Cardinality(M)
            /\ \A k \in 1..Len(out) : out[k].trade = disk.led[Nth(M, k)]
            /\ env.sink = OpenSink => (exit = 0 /\ Values(stdout) = out)

C6_Witness ==
    /\ Answered("trades") /\ exit = 0
    /\ opts.name_substring = <<"b", "c">>
    /\ DOMAIN disk.reg = Symbols
    /\ Len(disk.led) = 2 /\ disk.led[1].sym = "AAPL" /\ disk.led[2].sym = "MSFT"
    /\ Len(stdout) = 1 /\ stdout[1].val.trade = disk.led[2]

\* C8: storage that is missing or unparsable at Open fails there and Check
\* is not reached; storage that cannot be read or parsed after Open makes
\* Check fail with that error and no counts, nothing is printed and the
\* process does not exit with 0.  On storage that reads well Check succeeds,
\* any semantic fault (unknown symbol, quantity <= 0, price < 0, or a sell
\* that oversells in timestamp order, ties in on-disk order) brings the
\* trade count below len(Ledger), the counts never exceed the stored totals,
\* and the counts are printed.
C8_CheckFaults ==
    (opts.subcmd = "check" /\ calls # <<>>) =>
        CASE disk.kind # "init" ->
                 /\ Ops(calls) = <<"open">> /\ ~calls[1].ok
                 /\ stdout = <<>> /\ exit # 0
          [] disk.kind = "init" /\ env.read # "ok" ->
                 /\ Ops(calls) = <<"open", "check">>
                 /\ calls[1].ok
                 /\ ~calls[2].ok /\ calls[2].err = env.read /\ calls[2].val = <<>>
                 /\ stdout = <<>> /\ exit # 0
          [] OTHER ->
                 /\ Answered("check")
                 /\ calls[2].val[1] <= Len(disk.led)
                 /\ calls[2].val[2] <= Cardinality(DOMAIN disk.reg)
                 /\ HasSemanticFault(disk.reg, disk.led) => calls[2].val[1] < Len(disk.led)
                 /\ env.sink = OpenSink =>
                        /\ exit = 0
                        /\ stdout = <<TradesLine(calls[2].val[1]),
                                      StocksLine(calls[2].val[2])>>

\* Check fails on storage that does not parse, although the ledger it was
\* to count also has a semantic fault.
C8_Witness ==
    /\ opts.subcmd = "check" /\ env.read = "FormatError"
    /\ disk.kind = "init" /\ Len(disk.led) = MaxLedger
    /\ HasSemanticFault(disk.reg, disk.led)
    /\ Ops(calls) = <<"open", "check">> /\ calls[1].ok
    /\ ~calls[2].ok /\ calls[2].err = "FormatError" /\ calls[2].val = <<>>
    /\ stdout = <<>> /\ exit = 1 /\ errlog = "FormatError"

\* C9: check, trades and port, once run() reaches the match, call Open first
\* and call Check, Trades or Port only when Open succeeded; Open on a
\* directory that was never initialized or cannot be parsed fails with
\* NotInitialized or Corrupt; none of the three calls New, creates the
\* directory or reinitializes it.  A store is Initialized only through New
\* and Open only through Open.
C9_Lifecycle ==
    [][ /\ (opts'.subcmd \in ReadOnlyCmds /\ calls' # <<>>) =>
            /\ "new" \notin Range(Ops(calls'))
            /\ disk' = disk
            /\ IF disk.kind = "init"
               THEN /\ Ops(calls') = <<"open", opts'.subcmd>>
                    /\ calls'[1].ok
                    /\ store'.st = "Open"
               ELSE /\ Ops(calls') = <<"open">>
                    /\ ~calls'[1].ok
                    /\ calls'[1].err =
                           IF disk.kind = "absent" THEN "NotInitialized" ELSE "Corrupt"
                    /\ store'.st = "Uninitialized"
        /\ (opts'.subcmd = "init" /\ calls' # <<>>) =>
            /\ Ops(calls') = <<"new">>
            /\ store'.st = IF calls'[1].ok THEN "Initialized" ELSE "Uninitialized"
        /\ (opts'.subcmd # "none" /\ calls' = <<>>) =>
            (store'.st = "Uninitialized" /\ disk' = disk)
       ]_vars

C9_Witness ==
    /\ opts.subcmd = "trades" /\ disk.kind = "absent"
    /\ Ops(calls) = <<"open">> /\ calls[1].err = "NotInitialized"
    /\ store.st = "Uninitialized"

====
